---- MODULE Spec2Model ----
(***************************************************************************)
(* Model of packages/app-features/contacts/components/activity-timeline/   *)
(* activity-timeline.tsx: the ActivityTimeline feed, its item renderers,   *)
(* the add-comment Composer and the comment deletion flow.                 *)
(***************************************************************************)
EXTENDS Integers, Sequences, FiniteSets, Bags, TLC

\* ---------------------------------------------------------------- bounds
MaxFeed    == 2   \* longest activities sequence a caller supplies; ids are 1..MaxFeed
MaxCalls   == 2   \* onAddComment calls waiting at once
MaxPrompts == 2   \* confirmation prompts open at once
MaxDeletes == 2   \* onDeleteComment calls waiting at once

\* ------------------------------------------------------------ data model
\* The value of a property that is not there (JavaScript undefined).
Undefined == [undefined |-> TRUE]

Ada == [name |-> "Ada", email |-> "ada@example.com", id |-> "u1"]
Bob == [name |-> "Bob", email |-> "bob@example.com", id |-> "u2"]

Ids == 1..MaxFeed

\* activity.type: the three declared kinds and a kind the switch does not
\* know; "undefined" is the type of a record that has none.
RecognizedTypes == {"action", "comment", "update"}
ActivityTypes   == RecognizedTypes \cup {"note"}

\* One element of `activities` as the component functions read it: the
\* declared fields id, user, type, and the property `users` that the three
\* item renderers destructure from their props.  A record of the declared
\* shape has no `users`; only the renderers of comment and update records
\* get as far as using it.
\* The `data` of a record of each type.  An update's oldValue is optional:
\* this one has none.
DataOf(type) ==
    CASE type = "action"  -> [action |-> "created"]
      [] type = "comment" -> [comment |-> "<p>hi</p>"]
      [] type = "update"  -> [field |-> "title", value |-> "Acme"]
      [] OTHER            -> Undefined

Activity(id, type, users) ==
    [id |-> id, type |-> type, user |-> Ada, users |-> users, data |-> DataOf(type)]

\* The `data` of update records: without oldValue, with one, with an empty one.
UpdateDatas ==
    { [field |-> "title", value |-> "Acme"],
      [field |-> "title", value |-> "Acme", oldValue |-> "Old Co"],
      [field |-> "title", value |-> "Acme", oldValue |-> ""] }

Records ==
    { Activity(id, t, Undefined) : id \in Ids, t \in ActivityTypes }
      \cup { Activity(id, t, Bob) : id \in Ids, t \in {"comment", "update"} }
      \cup { Activity(1, "undefined", Undefined) }

\* The records of the feed on its own: update records with every `data`.
RichRecords ==
    Records \cup { [Activity(id, "update", Bob) EXCEPT !.data = d] :
                     id \in Ids, d \in UpdateDatas }

UniqueIds(acts) ==
    \A i, j \in 1..Len(acts) : acts[i].id = acts[j].id => i = j

\* The activities sequences a caller supplies: ids unique within a feed.
Feeds ==
    { acts \in UNION { [1..n -> Records] : n \in 0..MaxFeed } : UniqueIds(acts) }

RichFeeds ==
    { acts \in UNION { [1..n -> RichRecords] : n \in 0..MaxFeed } : UniqueIds(acts) }

RemoveAt(seq, i) == SubSeq(seq, 1, i - 1) \o SubSeq(seq, i + 1, Len(seq))

\* The sequences the caller supplies next: the data owner has added a record
\* (a new activity, at either end) or taken one out (a deleted comment).
FeedsAfter(acts) ==
    { new \in { Append(acts, r) : r \in Records } \cup { <<r>> \o acts : r \in Records } :
        Len(new) <= MaxFeed /\ UniqueIds(new) }
      \cup { RemoveAt(acts, i) : i \in 1..Len(acts) }

RichFeedsAfter(acts) ==
    { new \in { Append(acts, r) : r \in RichRecords }
               \cup { <<r>> \o acts : r \in RichRecords } :
        Len(new) <= MaxFeed /\ UniqueIds(new) }
      \cup { RemoveAt(acts, i) : i \in 1..Len(acts) }

\* The draft held by the form: the `comment` field of the editor.  No field
\* named `files` is registered, so the draft never holds files.
\* A comment is the sequence of its characters.
Comments   == { <<>>, <<" ">>, <<"h", "i">> }
Draft(c)   == [comment |-> c, files |-> 0]
EmptyDraft == Draft(<<>>)

\* comment.trim() === ""
IsBlank(c) == \A i \in 1..Len(c) : c[i] = " "

\* ------------------------------------------------------------- rendering
NoItem == [kind |-> "none", key |-> 0, id |-> <<>>, href |-> <<>>,
           who |-> "", text |-> <<>>, menu |-> FALSE]

ComposerItem == [kind |-> "composer", key |-> 0, id |-> <<>>, href |-> <<>>,
                 who |-> "", text |-> <<>>, menu |-> FALSE]

\* user.name || user.email || user.id; reading a property of undefined throws.
ActivityUserThrows(user) == user = Undefined

ActivityUser(user) ==
    IF user.name # "" THEN user.name
    ELSE IF user.email # "" THEN user.email
    ELSE user.id

\* ActivityTimelineAction reads `user.avatar` while building its icon, and no
\* `user` is bound in the function (the props are destructured as `users`):
\* the render throws a ReferenceError for every record.
ActivityTimelineAction(props) ==
    [threw |-> TRUE, item |-> NoItem]

\* FromClause without the guard: the clause is always written.
FromClauseAlways(data) ==
    <<" from ", IF "oldValue" \in DOMAIN data THEN data.oldValue ELSE "undefined">>

\* data.oldValue && ` from ${data.oldValue}`: an absent and an empty
\* oldValue are both falsy and render nothing.
FromClause(data) ==
    IF "oldValue" \in DOMAIN data /\ data.oldValue # ""
      THEN <<" from ", data.oldValue>>
      ELSE <<>>

\* The text of an update item after the user's name, piece by piece.
UpdateText(data) ==
    <<" changed ", data.field, " to ", data.value>> \o FromClause(data) \o <<".">>

\* ActivityTimelineUpdate passes `users` to ActivityUser, which reads its
\* properties.
ActivityTimelineUpdate(props) ==
    IF ActivityUserThrows(props.users)
      THEN [threw |-> TRUE, item |-> NoItem]
      ELSE [threw |-> FALSE,
            item  |-> [kind |-> "update", key |-> props.id,
                       id   |-> <<"update", props.id>>,
                       href |-> <<"#update", props.id>>,
                       who  |-> ActivityUser(props.users),
                       text |-> UpdateText(props.data),
                       menu |-> FALSE]]

\* ActivityTimelineComment with a timestamp link to the comment's own anchor.
ActivityTimelineCommentOwnAnchor(props) ==
    IF props.users = Undefined
      THEN [threw |-> TRUE, item |-> NoItem]
      ELSE [threw |-> FALSE,
            item  |-> [kind |-> "comment", key |-> props.id,
                       id   |-> <<"comment", props.id>>,
                       href |-> <<"#comment", props.id>>,
                       who  |-> ActivityUser(props.users),
                       text |-> <<props.data.comment>>,
                       menu |-> TRUE]]

\* ActivityTimelineComment reads `users.avatar` for its icon.  The overflow
\* menu with its "Delete" item is rendered whether or not onDelete is given.
ActivityTimelineComment(props) ==
    IF props.users = Undefined
      THEN [threw |-> TRUE, item |-> NoItem]
      ELSE [threw |-> FALSE,
            item  |-> [kind |-> "comment", key |-> props.id,
                       id   |-> <<"comment", props.id>>,
                       href |-> <<"#action", props.id>>,
                       who  |-> ActivityUser(props.users),
                       text |-> <<props.data.comment>>,
                       menu |-> TRUE]]

\* The switch of ActivityTimeline: the element created for one activity, or
\* nothing (the callback returns undefined) when no case matches.
DispatchNothing == [threw |-> FALSE, item |-> NoItem]

\* Dispatch with a default case that throws on a type it does not know.
DispatchStrict(activity) ==
    CASE activity.type = "action"  -> ActivityTimelineAction(activity)
      [] activity.type = "comment" -> ActivityTimelineComment(activity)
      [] activity.type = "update"  -> ActivityTimelineUpdate(activity)
      [] OTHER                     -> [threw |-> TRUE, item |-> NoItem]

Dispatch(activity) ==
    CASE activity.type = "action"  -> ActivityTimelineAction(activity)
      [] activity.type = "comment" -> ActivityTimelineComment(activity)
      [] activity.type = "update"  -> ActivityTimelineUpdate(activity)
      [] OTHER                     -> DispatchNothing

RECURSIVE Items(_)
Items(acts) ==
    IF acts = <<>> THEN <<>>
    ELSE LET r == Dispatch(Head(acts))
         IN  (IF r.item = NoItem THEN <<>> ELSE <<r.item>>) \o Items(Tail(acts))

\* One render of <ActivityTimeline>: the mapped activities followed by the
\* composer.  An error thrown by a child's render is caught by nothing in
\* this tree, so React unmounts it: nothing is left on screen.
ActivityTimeline(acts) ==
    IF \E i \in 1..Len(acts) : Dispatch(acts[i]).threw
      THEN [ok |-> FALSE, items |-> <<>>]
      ELSE [ok |-> TRUE,  items |-> Items(acts) \o <<ComposerItem>>]

\* ----------------------------------------------------------------- state
VARIABLES
    activities,       \* props.activities of the last render
    onDeleteComment,  \* whether props.onDeleteComment is given
    mounted,          \* the tree is on screen (no render has thrown)
    rendered,         \* the items on screen, in order
    draft,            \* the form's values
    inflight,         \* the `data` of the submit handlers waiting on onSubmit
    handlerResult,    \* how the submit handler that finished last ended
    snackbar,         \* the notifications shown
    prompts,          \* the open confirmation prompts (a bag)
    dismissed,        \* a confirmation prompt has been dismissed
    confirmResult,    \* how the onConfirm call made last ended
    deleting          \* the ids of the onDeleteComment calls not yet settled (a bag)

vars == <<activities, onDeleteComment, mounted, rendered, draft, inflight,
          handlerResult, snackbar, prompts, dismissed, confirmResult, deleting>>

feedVars     == <<activities, onDeleteComment, mounted, rendered>>
composerVars == <<draft, inflight, handlerResult>>
deleteVars   == <<prompts, dismissed, confirmResult, deleting>>

InitFrom(feeds) ==
    /\ activities \in feeds
    /\ onDeleteComment \in BOOLEAN
    /\ mounted = ActivityTimeline(activities).ok
    /\ rendered = ActivityTimeline(activities).items
    /\ draft = EmptyDraft
    /\ inflight = <<>>
    /\ handlerResult = "none"
    /\ snackbar = {}
    /\ prompts = EmptyBag
    /\ dismissed = FALSE
    /\ confirmResult = "none"
    /\ deleting = EmptyBag

Init == InitFrom(Feeds)

\* The first render, over the feeds with every update `data`.
InitFeed == InitFrom(RichFeeds)

\* The caller supplies a new activities sequence and the feed is rendered
\* again.  A render that throws takes the whole tree down, the form and the
\* prompts with it.
FeedUpdate(acts) ==
    /\ mounted
    /\ acts # activities
    /\ activities' = acts
    /\ LET out == ActivityTimeline(acts)
       IN  /\ mounted' = out.ok
           /\ rendered' = out.items
           /\ draft' = IF out.ok THEN draft ELSE EmptyDraft
           /\ prompts' = IF out.ok THEN prompts ELSE EmptyBag
    /\ UNCHANGED <<onDeleteComment, inflight, handlerResult, snackbar,
                   dismissed, confirmResult, deleting>>

LinkCopied == "Link copied to clipboard"

\* ActivityLink's onClick: copy the href and tell the user.
CopyLink(k) ==
    /\ mounted
    /\ rendered[k].href # <<>>
    /\ snackbar' = snackbar \cup {LinkCopied}
    /\ UNCHANGED <<feedVars, composerVars, deleteVars>>

\* -------------------------------------------------------------- composer
\* The editor field named "comment" changes the draft; nothing disables it
\* while a submission is awaited.
EditDraft(c) ==
    /\ mounted
    /\ c # draft.comment
    /\ draft' = [draft EXCEPT !.comment = c]
    /\ UNCHANGED <<feedVars, inflight, handlerResult, snackbar, deleteVars>>

\* HandlerAccepts latched shut by a rejection: no submit after a failure.
HandlerAcceptsUnlessFailed(data, waiting) == handlerResult # "rejected"

\* The form's onSubmit handler up to its await: it looks neither at the
\* content of `data` nor at a submission still awaited.
HandlerAccepts(data, waiting) == TRUE

\* OnSubmitArg handing on a tidied copy: the comment without its spaces.
OnSubmitArgTidied(data) ==
    [data EXCEPT !.comment = SelectSeq(data.comment, LAMBDA ch : ch # " ")]

\* The argument of onSubmit(data): the form's values, as they are.
OnSubmitArg(data) == data

\* FormReset without the reset() call.
FormResetForgotten(current, formMounted) == current

\* formRef.current?.reset(): the form goes back to its default values, and
\* the Form is given none.  After an unmount formRef.current is null.
FormReset(current, formMounted) ==
    IF formMounted THEN EmptyDraft ELSE current

\* AfterAwait with the reset in a finally block: it runs on a rejection too.
AfterAwaitFinally(outcome, current, formMounted) ==
    [draft |-> FormReset(current, formMounted), escapes |-> outcome # "resolved",
     notice |-> {}]

\* The handler after `await onSubmit(data)`: what has become of the draft,
\* whether the rejection leaves the handler, what is shown to the user.
AfterAwait(outcome, current, formMounted) ==
    IF outcome = "resolved"
      THEN [draft |-> FormReset(current, formMounted), escapes |-> FALSE,
            notice |-> {}]
      ELSE [draft |-> current, escapes |-> TRUE, notice |-> {}]

\* A submit event delivered to the handler: by the submit button, or by the
\* click() the editor's key handler makes on it.
Submit ==
    /\ mounted
    /\ Len(inflight) < MaxCalls
    /\ HandlerAccepts(draft, inflight)
    /\ inflight' = Append(inflight, OnSubmitArg(draft))
    /\ UNCHANGED <<feedVars, draft, handlerResult, snackbar, deleteVars>>

SubmitClick == Submit

KeyEvents == { [key |-> k, metaKey |-> m] : k \in {"Enter", "a"}, m \in BOOLEAN }

KeyDown(e) ==
    /\ mounted
    /\ IF e.key = "Enter" /\ e.metaKey THEN Submit ELSE UNCHANGED vars

Settle(i, outcome) ==
    /\ i \in 1..Len(inflight)
    /\ LET after == AfterAwait(outcome, draft, mounted)
       IN  /\ draft' = after.draft
           /\ handlerResult' = IF after.escapes THEN "rejected" ELSE "fulfilled"
           /\ snackbar' = snackbar \cup after.notice
    /\ inflight' = RemoveAt(inflight, i)
    /\ UNCHANGED <<feedVars, deleteVars>>

\* The promise of the i-th waiting onSubmit call resolves / rejects.
Resolve(i) == Settle(i, "resolved")
Reject(i)  == Settle(i, "rejected")

\* -------------------------------------------------------- deletion flow
\* OnConfirmId passing the id of the feed's first record instead of its own.
OnConfirmIdOfFirst(item) == Head(activities).id

\* The id the onConfirm closure of a comment item passes on.
OnConfirmId(item) == item.key

\* "Delete" in the overflow menu of the k-th item: modals.confirm(...) opens
\* a prompt that holds the onConfirm closure (id and onDelete of that render).
RequestDelete(k) ==
    /\ mounted
    /\ k \in 1..Len(rendered)
    /\ rendered[k].menu
    /\ BagCardinality(prompts) < MaxPrompts
    /\ prompts' = prompts (+) SetToBag({[target   |-> rendered[k].key,
                                         id       |-> OnConfirmId(rendered[k]),
                                         onDelete |-> onDeleteComment]})
    /\ UNCHANGED <<feedVars, composerVars, snackbar, dismissed, confirmResult,
                   deleting>>

\* onConfirm: () => onDelete?.(id)
OnConfirm(prompt, calls) ==
    IF prompt.onDelete THEN calls (+) SetToBag({prompt.id}) ELSE calls

\* OnCancel with the delete wired to the dismissal as well.
OnCancelDeletes(prompt, calls) == OnConfirm(prompt, calls)

\* The options given to modals.confirm name no handler for a dismissal.
OnCancel(prompt, calls) == calls

\* OnConfirmThrows for a plain call onDelete(id): calling undefined throws.
OnConfirmThrowsWithoutCallback(prompt) == ~prompt.onDelete

\* Whether onConfirm throws: the optional call `onDelete?.(id)` evaluates to
\* undefined when onDelete is not given.
OnConfirmThrows(prompt) == FALSE

\* Confirm taking the comment's item off the screen itself.
ConfirmRemovesItem(p) ==
    /\ BagIn(p, prompts)
    /\ BagCardinality(OnConfirm(p, deleting)) <= MaxDeletes
    /\ deleting' = OnConfirm(p, deleting)
    /\ confirmResult' = "returned"
    /\ prompts' = prompts (-) SetToBag({p})
    /\ rendered' = SelectSeq(rendered, LAMBDA item : item.key # p.id)
    /\ UNCHANGED <<activities, onDeleteComment, mounted, composerVars, snackbar,
                   dismissed>>

\* The prompt is confirmed: onConfirm runs and the prompt closes.
Confirm(p) ==
    /\ BagIn(p, prompts)
    /\ BagCardinality(OnConfirm(p, deleting)) <= MaxDeletes
    /\ deleting' = (IF OnConfirmThrows(p) THEN deleting ELSE OnConfirm(p, deleting))
    /\ confirmResult' = (IF OnConfirmThrows(p) THEN "threw" ELSE "returned")
    /\ prompts' = prompts (-) SetToBag({p})
    /\ UNCHANGED <<feedVars, composerVars, snackbar, dismissed>>

\* The prompt is dismissed.
Cancel(p) ==
    /\ BagIn(p, prompts)
    /\ deleting' = OnCancel(p, deleting)
    /\ prompts' = prompts (-) SetToBag({p})
    /\ dismissed' = TRUE
    /\ UNCHANGED <<feedVars, composerVars, snackbar, confirmResult>>

\* The promise of an onDeleteComment(id) call settles.  The component awaits
\* none of them and reads no result.
DeleteSettled(id, outcome) ==
    /\ BagIn(id, deleting)
    /\ outcome \in {"resolved", "rejected"}
    /\ deleting' = deleting (-) SetToBag({id})
    /\ UNCHANGED <<feedVars, composerVars, snackbar, prompts, dismissed,
                   confirmResult>>

\* ------------------------------------------------------------------ spec
Next ==
    \/ \E acts \in FeedsAfter(activities) : FeedUpdate(acts)
    \/ \E k \in 1..MaxFeed : k <= Len(rendered) /\ CopyLink(k)
    \/ \E c \in Comments : EditDraft(c)
    \/ SubmitClick
    \/ \E e \in KeyEvents : KeyDown(e)
    \/ \E i \in 1..MaxCalls : Resolve(i)
    \/ \E i \in 1..MaxCalls : Reject(i)
    \/ \E k \in 1..(MaxFeed + 1) : RequestDelete(k)
    \/ \E p \in BagToSet(prompts) : Confirm(p)
    \/ \E p \in BagToSet(prompts) : Cancel(p)
    \/ \E id \in Ids, outcome \in {"resolved", "rejected"} : DeleteSettled(id, outcome)

Spec == Init /\ [][Next]_vars

\* The feed, the composer and the deletion flow each on its own, with the
\* feed updates that can unmount them.
NextFeed ==
    \/ \E acts \in RichFeedsAfter(activities) : FeedUpdate(acts)
    \/ \E k \in 1..MaxFeed : k <= Len(rendered) /\ CopyLink(k)

NextComposer ==
    \/ \E acts \in FeedsAfter(activities) : FeedUpdate(acts)
    \/ \E c \in Comments : EditDraft(c)
    \/ SubmitClick
    \/ \E e \in KeyEvents : KeyDown(e)
    \/ \E i \in 1..MaxCalls : Resolve(i)
    \/ \E i \in 1..MaxCalls : Reject(i)

NextDelete ==
    \/ \E acts \in FeedsAfter(activities) : FeedUpdate(acts)
    \/ \E k \in 1..(MaxFeed + 1) : RequestDelete(k)
    \/ \E p \in BagToSet(prompts) : Confirm(p)
    \/ \E p \in BagToSet(prompts) : Cancel(p)
    \/ \E id \in Ids, outcome \in {"resolved", "rejected"} : DeleteSettled(id, outcome)

SpecFeed     == InitFeed /\ [][NextFeed]_vars
SpecComposer == Init /\ [][NextComposer]_vars
SpecDelete   == Init /\ [][NextDelete]_vars

\* ================================================================ claims
\* The composer of section 4.4: Submitting while an onAddComment call waits.
ComposerState == IF inflight = <<>> THEN "Idle" ELSE "Submitting"

Known(acts) == SelectSeq(acts, LAMBDA a : a.type \in RecognizedTypes)

ComposerCount == Cardinality({ k \in 1..Len(rendered) : rendered[k].kind = "composer" })

\* C1: whatever activities sequence is supplied, the feed on screen holds the
\* Composer exactly once, as its last item.
ComposerOnceAndLast ==
    /\ ComposerCount = 1
    /\ rendered[Len(rendered)].kind = "composer"

\* C2: a record whose type is none of action, comment, update puts nothing on
\* screen and throws nothing: the feed is rendered exactly as it is without
\* that record, the other records' items and the Composer included.
UnrecognizedRendersNothing ==
    /\ mounted = ActivityTimeline(Known(activities)).ok
    /\ rendered = ActivityTimeline(Known(activities)).items
    /\ \A i \in 1..Len(activities) :
         activities[i].type \notin RecognizedTypes
           => \A k \in 1..Len(rendered) : rendered[k].key # activities[i].id

\* A feed on screen with an unrecognized record next to a rendered one.
UnrecognizedBesideRendered ==
    /\ mounted
    /\ Len(rendered) = 2
    /\ rendered[1].kind \in {"comment", "update"}
    /\ ComposerOnceAndLast
    /\ \E i \in 1..Len(activities) : activities[i].type \notin RecognizedTypes

\* C3: at most one onAddComment call of a Composer waits at any time (a second
\* submit attempt made before the first call has settled calls nothing).
AtMostOneSubmissionInFlight == Len(inflight) <= 1

RejectionCaughtAndShown ==
    [][\A i \in 1..MaxCalls :
         Reject(i) => /\ handlerResult' # "rejected"
                      /\ \E n \in snackbar' : n # LinkCopied]_vars

\* C7: selecting "Delete" calls nothing; an onDeleteComment call is made only
\* in the step that confirms a prompt, with the id of the comment on which
\* "Delete" was selected for that prompt.
DeleteOnlyOnConfirm ==
    [][/\ \A k \in 1..(MaxFeed + 1) : RequestDelete(k) => deleting' = deleting
       /\ BagCardinality(deleting') > BagCardinality(deleting)
            => \E p \in BagToSet(prompts) :
                 /\ Confirm(p)
                 /\ deleting' = deleting (+) SetToBag({p.target})]_vars

\* A delete called for one comment while the prompt of another is open.
DeleteCalledWhileOtherPending ==
    \E id \in Ids :
      /\ BagIn(id, deleting)
      /\ \E p \in BagToSet(prompts) : p.target # id

\* C8: the step that dismisses a prompt closes that prompt and changes
\* nothing else: no onDeleteComment call, the same feed, the same draft.
CancelChangesNothing ==
    [][\A p \in BagToSet(prompts) :
         Cancel(p) => /\ deleting' = deleting
                      /\ BagCardinality(prompts') = BagCardinality(prompts) - 1
                      /\ activities' = activities
                      /\ rendered' = rendered
                      /\ draft' = draft]_vars

\* A dismissal has happened where a delete could have been called: the flow
\* is idle again and no call was made.
DismissedAndIdle ==
    /\ mounted
    /\ onDeleteComment
    /\ dismissed
    /\ prompts = EmptyBag
    /\ deleting = EmptyBag

\* C9: no onAddComment call is ever made with an empty or whitespace-only
\* comment.
BlankDraftNeverSubmitted ==
    \A i \in 1..Len(inflight) : ~IsBlank(inflight[i].comment)

\* C10: without onDeleteComment no item offers "Delete" and no prompt is open.
NoDeleteWithoutCallback ==
    ~onDeleteComment
      => /\ prompts = EmptyBag
         /\ \A k \in 1..Len(rendered) : ~rendered[k].menu

FeedNotMutatedByDeletion ==
    [][/\ \A p \in BagToSet(prompts) :
            Confirm(p) => (activities' = activities /\ rendered' = rendered)
       /\ \A id \in Ids, outcome \in {"resolved", "rejected"} :
            DeleteSettled(id, outcome)
              => (activities' = activities /\ rendered' = rendered)
       /\ mounted' => rendered' = ActivityTimeline(activities').items
       /\ rendered' # rendered => activities' # activities]_vars

\* A confirmed delete is waiting and its comment is still on screen.
DeletingCommentStillRendered ==
    /\ mounted
    /\ \E id \in Ids :
         /\ BagIn(id, deleting)
         /\ \E k \in 1..Len(rendered) :
              rendered[k].kind = "comment" /\ rendered[k].key = id

\* C13: every record of kind action, update or comment is rendered, and its
\* item shows the identity of the record's `user` (name, else email, else
\* id); the text of an action item is "<user> created the contact.".
RecordsRenderedWithTheirUser ==
    \A i \in 1..Len(activities) :
      activities[i].type \in RecognizedTypes
        => \E k \in 1..Len(rendered) :
             /\ rendered[k].key = activities[i].id
             /\ rendered[k].who = ActivityUser(activities[i].user)
             /\ activities[i].type = "action"
                  => rendered[k].text = <<" created the contact.">>

\* C14: a submit step calls onAddComment with the draft as it is at that
\* moment (same comment, same files) and leaves the draft alone; the step in
\* which the call resolves changes neither the supplied sequence nor the
\* items on screen: the Composer adds no record of its own.
SubmitsLiteralDraftAndAddsNoRecord ==
    [][/\ SubmitClick => (inflight' = Append(inflight, draft) /\ draft' = draft)
       /\ \A i \in 1..MaxCalls :
            Resolve(i) => (activities' = activities /\ rendered' = rendered)]_vars

\* A call is waiting with the draft that is still in the form.
DraftSubmittedAsComposed ==
    /\ mounted
    /\ draft = Draft(<<"h", "i">>)
    /\ inflight = <<draft>>

\* C15: no two onDeleteComment calls for the same id wait at once (the
\* comment's "Delete" is disabled while one waits).
NoTwoDeletesOfOneComment ==
    \A id \in Ids : CopiesIn(id, deleting) <= 1

\* C16: the items on screen before the Composer are, in the order of the
\* activities sequence, one item per record of a recognized kind, keyed by
\* that record's id: none dropped, none duplicated, none moved.
FeedItemsInCallerOrder ==
    LET known == Known(activities)
    IN  /\ Len(rendered) = Len(known) + 1
        /\ \A i \in 1..Len(known) : rendered[i].key = known[i].id

\* C17: after a submission that failed the Composer takes a submit again:
\* with the tree on screen, a submit step is possible, and it calls
\* onAddComment with the draft that was kept and leaves that draft in place.
RetryAcceptedAfterFailure ==
    (mounted /\ handlerResult = "rejected" /\ Len(inflight) < MaxCalls)
      => ENABLED (SubmitClick /\ inflight' = Append(inflight, draft) /\ draft' = draft)

\* The retry of a failed submission is waiting, with the draft that was kept.
RetryInFlight ==
    /\ mounted
    /\ handlerResult = "rejected"
    /\ draft = Draft(<<"h", "i">>)
    /\ inflight = <<draft>>
    /\ ComposerState = "Submitting"

DraftHeldWhileInFlight ==
    mounted => \A i \in 1..Len(inflight) : draft = inflight[i]

\* C20: confirming a prompt that was opened without onDeleteComment does
\* nothing but close it: no onDeleteComment call starts, onConfirm returns
\* without throwing, and the feed and the Composer's draft stay as they are.
ConfirmWithoutCallbackIsNoOp ==
    [][\A p \in BagToSet(prompts) :
         (Confirm(p) /\ ~p.onDelete)
           => /\ deleting' = deleting
              /\ confirmResult' = "returned"
              /\ activities' = activities
              /\ rendered' = rendered
              /\ mounted' = mounted
              /\ draft' = draft]_vars

\* A prompt has been confirmed on a timeline that has no onDeleteComment.
ConfirmedWithoutCallback ==
    /\ ~onDeleteComment
    /\ mounted
    /\ confirmResult = "returned"
    /\ deleting = EmptyBag

====
